---------------------------- MODULE Spec2Model ----------------------------
(* A model of cli_bot.py: the console assistant bot's field validators,    *)
(* Record and AddressBook classes, the birthday-window query, the command  *)
(* handlers with their input_error decorator, and the main loop.           *)
(*                                                                         *)
(* A text (Python str) is a sequence of one-character strings, so that     *)
(* splitting, lower-casing, digit tests and date parsing are computed and  *)
(* not assumed.                                                            *)
EXTENDS Integers, Sequences, FiniteSets, TLC

VARIABLES book, prev, line, out, status, today, result, call

vars == <<book, prev, line, out, status, today, result, call>>

(***************************************************************************)
(* Bounds of the model.                                                    *)
(***************************************************************************)
\* the most phones the whole directory holds before add/change are cut off
MaxTotalPhones == 3
\* the most contacts of a directory the birthday-window specification draws
MaxContacts == 2
\* the most phones the directory holds in the Record-level specification
MaxApiPhones == 2

(***************************************************************************)
(* Texts.                                                                  *)
(***************************************************************************)
DigitChars == <<"0", "1", "2", "3", "4", "5", "6", "7", "8", "9">>

UpperChars == <<"A", "B", "C", "D", "E", "F", "G", "H", "I", "J", "K", "L", "M",
                "N", "O", "P", "Q", "R", "S", "T", "U", "V", "W", "X", "Y", "Z">>

LowerChars == <<"a", "b", "c", "d", "e", "f", "g", "h", "i", "j", "k", "l", "m",
                "n", "o", "p", "q", "r", "s", "t", "u", "v", "w", "x", "y", "z">>

Range(s) == {s[i] : i \in DOMAIN s}

\* str.isdigit() of one character (ASCII alphabet)
IsDigitChar(c) == c \in Range(DigitChars)

\* int() of one digit character
DigitVal(c) == (CHOOSE i \in DOMAIN DigitChars : DigitChars[i] = c) - 1

\* str.isdigit(): non-empty and every character a digit
IsDigit(s) == Len(s) > 0 /\ \A i \in DOMAIN s : IsDigitChar(s[i])

\* int() of the first k characters of a text of digits
RECURSIVE ToIntUpTo(_, _)
ToIntUpTo(s, k) ==
    IF k = 0 THEN 0 ELSE 10 * ToIntUpTo(s, k - 1) + DigitVal(s[k])

\* int(s) of a text of digits
ToInt(s) == ToIntUpTo(s, Len(s))

\* str.lower() of one character
LowerChar(c) ==
    IF c \in Range(UpperChars)
    THEN LowerChars[CHOOSE i \in DOMAIN UpperChars : UpperChars[i] = c]
    ELSE c

\* str.lower()
Lower(s) == [i \in DOMAIN s |-> LowerChar(s[i])]

\* str.split(sep) for a one-character separator: the fields between the
\* separators, empty ones kept
SplitOn(s, sep) ==
    LET cuts   == {0, Len(s) + 1} \cup {i \in DOMAIN s : s[i] = sep}
        Cut(k) == CHOOSE x \in cuts : Cardinality({y \in cuts : y < x}) = k - 1
    IN  [k \in 1..(Cardinality(cuts) - 1) |-> SubSeq(s, Cut(k) + 1, Cut(k + 1) - 1)]

\* str.split(): split on runs of whitespace, no empty tokens
Split(s) == SelectSeq(SplitOn(s, " "), LAMBDA t : t # <<>>)

\* " ".join(tokens)
RECURSIVE Join(_)
Join(toks) == IF toks = <<>> THEN <<>>
              ELSE IF Len(toks) = 1 THEN toks[1]
              ELSE toks[1] \o <<" ">> \o Join(Tail(toks))

(***************************************************************************)
(* The calendar of datetime.date.                                          *)
(***************************************************************************)
IsLeap(y) == y % 4 = 0 /\ (y % 100 # 0 \/ y % 400 = 0)

DaysInMonth(y, m) ==
    IF m = 2 THEN (IF IsLeap(y) THEN 29 ELSE 28)
    ELSE IF m \in {4, 6, 9, 11} THEN 30 ELSE 31

\* what date(y, m, d) accepts; anything else raises ValueError
ValidDate(y, m, d) ==
    /\ y \in 1..9999
    /\ m \in 1..12
    /\ d >= 1 /\ d <= DaysInMonth(y, m)

Date(y, m, d) == [year |-> y, month |-> m, day |-> d]

RECURSIVE DaysBeforeMonth(_, _)
DaysBeforeMonth(y, m) ==
    IF m = 1 THEN 0 ELSE DaysBeforeMonth(y, m - 1) + DaysInMonth(y, m - 1)

DaysBeforeYear(y) ==
    (y - 1) * 365 + (y - 1) \div 4 - (y - 1) \div 100 + (y - 1) \div 400

\* date.toordinal()
Ordinal(dt) == DaysBeforeYear(dt.year) + DaysBeforeMonth(dt.year, dt.month) + dt.day

\* date.weekday(): Monday is 0
WeekdayOfOrdinal(n) == (n + 6) % 7

Weekday(dt) == WeekdayOfOrdinal(Ordinal(dt))

DayNames == <<"Monday", "Tuesday", "Wednesday", "Thursday", "Friday",
              "Saturday", "Sunday">>

\* (today + timedelta(days = delta)).strftime("%A")
DayNameAfter(dt, delta) == DayNames[WeekdayOfOrdinal(Ordinal(dt) + delta) + 1]

(***************************************************************************)
(* Field validators: Name, Phone, Birthday.                                *)
(***************************************************************************)
\* Python's None where a text or a list is expected
None == <<>>

\* Name.__init__: "if not value: raise ValueError"
NameOk(value) == value # <<>>

\* Phone.validate_phone: len(value) == 10 and value.isdigit()
validate_phone(value) == Len(value) = 10 /\ IsDigit(value)

\* the %d directive of strptime: 3[0-1] | [1-2]\d | 0[1-9] | [1-9]
MatchesDay(t) ==
    /\ IsDigit(t)
    /\ \/ Len(t) = 1 /\ ToInt(t) \in 1..9
       \/ Len(t) = 2 /\ ToInt(t) \in 1..31

\* the %m directive of strptime: 1[0-2] | 0[1-9] | [1-9]
MatchesMonth(t) ==
    /\ IsDigit(t)
    /\ \/ Len(t) = 1 /\ ToInt(t) \in 1..9
       \/ Len(t) = 2 /\ ToInt(t) \in 1..12

\* the %Y directive of strptime: \d\d\d\d
MatchesYear(t) == IsDigit(t) /\ Len(t) = 4

\* strptime's match of the fields between the dots, and the date it builds:
\* ok is FALSE where it raises ValueError
ParseFields(parts) ==
    IF /\ Len(parts) = 3
       /\ MatchesDay(parts[1])
       /\ MatchesMonth(parts[2])
       /\ MatchesYear(parts[3])
       /\ ValidDate(ToInt(parts[3]), ToInt(parts[2]), ToInt(parts[1]))
    THEN [ok |-> TRUE,
          date |-> Date(ToInt(parts[3]), ToInt(parts[2]), ToInt(parts[1]))]
    ELSE [ok |-> FALSE, date |-> Date(0, 0, 0)]

\* datetime.strptime(value, '%d.%m.%Y')
strptime(value) == ParseFields(SplitOn(value, "."))

\* Birthday.validate_birthday
validate_birthday(value) == strptime(value).ok

\* Birthday.to_datetime (of a stored, hence validated, value), then .date()
to_datetime(value) == strptime(value).date

(***************************************************************************)
(* Record.  A call's outcome is [exc, rec]: exc is "" when it returns and  *)
(* the exception's class name when it raises.                              *)
(***************************************************************************)
NoRecord == [name |-> None, phones |-> <<>>, birthday |-> None]

\* Record.__init__
Record(name) ==
    IF NameOk(name)
    THEN [exc |-> "", rec |-> [name |-> name, phones |-> <<>>, birthday |-> None]]
    ELSE [exc |-> "ValueError", rec |-> NoRecord]

\* Record.add_phone
add_phone(rec, phone) ==
    IF validate_phone(phone)
    THEN [exc |-> "", rec |-> [rec EXCEPT !.phones = Append(@, phone)]]
    ELSE [exc |-> "ValueError", rec |-> rec]

\* Record.add_birthday
rec_add_birthday(rec, birthday) ==
    IF validate_birthday(birthday)
    THEN [exc |-> "", rec |-> [rec EXCEPT !.birthday = birthday]]
    ELSE [exc |-> "ValueError", rec |-> rec]

\* Record.remove_phone
remove_phone(rec, phone) ==
    [rec EXCEPT !.phones = SelectSeq(@, LAMBDA p : p # phone)]

\* index of the first phone equal to the given text, 0 when there is none
FirstPhoneIndex(rec, phone) ==
    IF \E i \in DOMAIN rec.phones : rec.phones[i] = phone
    THEN CHOOSE i \in DOMAIN rec.phones :
            /\ rec.phones[i] = phone
            /\ \A j \in 1..(i - 1) : rec.phones[j] # phone
    ELSE 0

\* Record.edit_phone: assigns phone.value directly
edit_phone(rec, old_phone, new_phone) ==
    LET i == FirstPhoneIndex(rec, old_phone)
    IN  IF i = 0 THEN rec ELSE [rec EXCEPT !.phones[i] = new_phone]

\* Record.find_phone
find_phone(rec, phone) ==
    LET i == FirstPhoneIndex(rec, phone)
    IN  IF i = 0 THEN None ELSE rec.phones[i]

\* Record.get_birthday
get_birthday(rec) == rec.birthday

(***************************************************************************)
(* AddressBook: the dict `data`, in insertion order, as a sequence of      *)
(* [key, rec] entries.                                                     *)
(***************************************************************************)
KeyIndex(data, key) ==
    IF \E i \in DOMAIN data : data[i].key = key
    THEN CHOOSE i \in DOMAIN data : data[i].key = key
    ELSE 0

\* add_record with a slip: the record is appended even where the key exists
add_record_Appends(data, rec) == Append(data, [key |-> rec.name, rec |-> rec])

\* AddressBook.add_record: self.data[record.name.value] = record
add_record(data, rec) ==
    LET i == KeyIndex(data, rec.name)
    IN  IF i = 0 THEN Append(data, [key |-> rec.name, rec |-> rec])
        ELSE [data EXCEPT ![i] = [key |-> rec.name, rec |-> rec]]

\* AddressBook.find: NoRecord stands for None
find(data, name) ==
    LET i == KeyIndex(data, name)
    IN  IF i = 0 THEN NoRecord ELSE data[i].rec

\* AddressBook.delete
delete(data, name) == SelectSeq(data, LAMBDA e : e.key # name)

\* the record found by find(), mutated in place
SetRecord(data, name, rec) ==
    [data EXCEPT ![KeyIndex(data, name)].rec = rec]

(***************************************************************************)
(* AddressBook.get_birthdays_per_week.                                     *)
(***************************************************************************)
\* date.__lt__
DateLess(a, b) ==
    \/ a.year < b.year
    \/ a.year = b.year /\ a.month < b.month
    \/ a.year = b.year /\ a.month = b.month /\ a.day < b.day

\* "if birthday_this_year < today": the year of the occurrence that is kept
OccurrenceYear(birthday, tdy) ==
    IF DateLess(Date(tdy.year, birthday.month, birthday.day), tdy)
    THEN tdy.year + 1
    ELSE tdy.year

\* "if birthday_this_year.weekday() > 4": the days added to birthday.day
ShiftDays(wd) == IF wd > 4 THEN 6 - wd + 1 ELSE 0

\* the "continue" with a slip: the bound is off by one
TooFar_OffByOne(delta_days) == delta_days > 7

\* "if delta_days >= 7: continue"
TooFar(delta_days) == delta_days >= 7

\* a replace() of the loop body raised ValueError
WindowRaises == [exc |-> "ValueError", skip |-> TRUE, day |-> "", delta |-> 0]

\* lines 333-339: delta_days, the "continue", the weekday's name
WindowDelta(tdy, delta_days) ==
    [exc |-> "", skip |-> TooFar(delta_days),
     day |-> DayNameAfter(tdy, delta_days), delta |-> delta_days]

\* lines 328-331: replace(day = birthday.day + delta_days) on a weekend
WindowShift(birthday, tdy, year, wd) ==
    IF ~ValidDate(year, birthday.month, birthday.day + ShiftDays(wd))
    THEN WindowRaises
    ELSE WindowDelta(tdy,
            Ordinal(Date(year, birthday.month, birthday.day + ShiftDays(wd)))
                - Ordinal(tdy))

\* lines 324-326: replace(year = today.year + 1) of a date already past
WindowRoll(birthday, tdy, year) ==
    IF ~ValidDate(year, birthday.month, birthday.day) THEN WindowRaises
    ELSE WindowShift(birthday, tdy, year,
                     Weekday(Date(year, birthday.month, birthday.day)))

\* line 322: birthday.replace(year = today.year)
WindowThisYear(birthday, tdy) ==
    IF ~ValidDate(tdy.year, birthday.month, birthday.day) THEN WindowRaises
    ELSE WindowRoll(birthday, tdy, OccurrenceYear(birthday, tdy))

\* One pass of the loop body for a birthday text: exc is "ValueError" where a
\* replace() raises, skip is TRUE where the body ends in "continue".
ContactWindow(btext, tdy) == WindowThisYear(to_datetime(btext), tdy)

\* birthdays_by_day[day].append(name) on the defaultdict, keys in insertion order
AppendDay(acc, day, name) ==
    IF \E i \in DOMAIN acc : acc[i].day = day
    THEN LET i == CHOOSE j \in DOMAIN acc : acc[j].day = day
         IN  [acc EXCEPT ![i].names = Append(@, name)]
    ELSE Append(acc, [day |-> day, names |-> <<name>>])

\* "for name in self.data" from entry i on, with the mapping built so far
RECURSIVE BirthdaysFrom(_, _, _, _)

\* the end of a pass of the loop whose outcome is w
BirthdaysStep(data, tdy, i, acc, w) ==
    IF w.exc # "" THEN [exc |-> w.exc, val |-> <<>>]
    ELSE IF w.skip THEN BirthdaysFrom(data, tdy, i + 1, acc)
    ELSE BirthdaysFrom(data, tdy, i + 1, AppendDay(acc, w.day, data[i].key))

BirthdaysFrom(data, tdy, i, acc) ==
    IF i > Len(data) THEN [exc |-> "", val |-> acc]
    ELSE IF get_birthday(data[i].rec) = None
         THEN BirthdaysFrom(data, tdy, i + 1, acc)
    ELSE BirthdaysStep(data, tdy, i, acc,
                       ContactWindow(get_birthday(data[i].rec), tdy))

get_birthdays_per_week(data, tdy) == BirthdaysFrom(data, tdy, 1, <<>>)

(***************************************************************************)
(* Command handlers.  A returned or printed string is a sequence of lines, *)
(* a line is [fmt, day, args]: the format, and the texts put into it.  A   *)
(* handler's outcome is [exc, key, ret, printed, book]: the exception it   *)
(* raises ("" for none) with KeyError's argument, the string it returns    *)
(* (<<>> for None), the lines it prints itself, and the directory after.   *)
(***************************************************************************)
Msg(s) == <<[fmt |-> s, day |-> "", args |-> <<>>]>>

Fmt(s, args) == <<[fmt |-> s, day |-> "", args |-> args]>>

Return(ret, data) ==
    [exc |-> "", key |-> None, ret |-> ret, printed |-> <<>>, book |-> data]

Raise(exc, key, data) ==
    [exc |-> exc, key |-> key, ret |-> <<>>, printed |-> <<>>, book |-> data]

\* input_error with a slip: no "except IndexError"
input_error_NoIndexError(r) ==
    IF r.exc = "ValueError"
    THEN Return(Msg("Give me name and phone please."), r.book)
    ELSE IF r.exc = "KeyError"
    THEN Return(Fmt("Contact '{}' not found.", <<r.key>>), r.book)
    ELSE r

\* the decorator input_error: inner()
input_error(r) ==
    IF r.exc = "ValueError"
    THEN Return(Msg("Give me name and phone please."), r.book)
    ELSE IF r.exc = "KeyError"
    THEN Return(Fmt("Contact '{}' not found.", <<r.key>>), r.book)
    ELSE IF r.exc = "IndexError"
    THEN Return(Msg("Invalid command format."), r.book)
    ELSE r

\* add_contact with a slip: the phone is validated but the record stored is
\* the one without it
add_contact_body_NoPhone(args, data) ==
    IF Len(args) # 2 THEN Raise("ValueError", None, data)
    ELSE IF Record(args[1]).exc # "" THEN Raise("ValueError", None, data)
    ELSE IF add_phone(Record(args[1]).rec, args[2]).exc # ""
    THEN Raise("ValueError", None, data)
    ELSE Return(Msg("Contact added."), add_record(data, Record(args[1]).rec))

\* the body of add_contact; "name, phone = args" raises ValueError
add_contact_body(args, data) ==
    IF Len(args) # 2 THEN Raise("ValueError", None, data)
    ELSE LET r == Record(args[1])
         IN  IF r.exc # "" THEN Raise(r.exc, None, data)
             ELSE LET p == add_phone(r.rec, args[2])
                  IN  IF p.exc # "" THEN Raise(p.exc, None, data)
                      ELSE Return(Msg("Contact added."), add_record(data, p.rec))

add_contact(args, data) == input_error(add_contact_body(args, data))

\* change_contact with a slip: the new phone replaces the record's phones
change_contact_body_Replaces(args, data) ==
    IF Len(args) # 2 THEN Raise("ValueError", None, data)
    ELSE IF find(data, args[1]) = NoRecord THEN Raise("KeyError", args[1], data)
    ELSE IF ~validate_phone(args[2]) THEN Raise("ValueError", None, data)
    ELSE Return(Msg("Contact updated."),
                SetRecord(data, args[1],
                          [find(data, args[1]) EXCEPT !.phones = <<args[2]>>]))

\* the body of change_contact
change_contact_body(args, data) ==
    IF Len(args) # 2 THEN Raise("ValueError", None, data)
    ELSE IF find(data, args[1]) = NoRecord THEN Raise("KeyError", args[1], data)
    ELSE LET p == add_phone(find(data, args[1]), args[2])
         IN  IF p.exc # "" THEN Raise(p.exc, None, data)
             ELSE Return(Msg("Contact updated."), SetRecord(data, args[1], p.rec))

change_contact(args, data) == input_error(change_contact_body(args, data))

\* the body of show_phone; record.phones[0] raises IndexError on an empty list
show_phone_body(args, data) ==
    IF Len(args) # 1 THEN Raise("IndexError", None, data)
    ELSE IF find(data, args[1]) = NoRecord THEN Raise("KeyError", args[1], data)
    ELSE IF find(data, args[1]).phones = <<>> THEN Raise("IndexError", None, data)
    ELSE Return(Fmt("{}", <<find(data, args[1]).phones[1]>>), data)

show_phone(args, data) == input_error(show_phone_body(args, data))

\* the body of show_all
show_all_body(data) ==
    IF data = <<>> THEN Return(Msg("No contacts found."), data)
    ELSE IF \E i \in DOMAIN data : data[i].rec.phones = <<>>
    THEN Raise("IndexError", None, data)
    ELSE Return([i \in DOMAIN data |->
                    [fmt |-> "{}: {}", day |-> "",
                     args |-> <<data[i].key, data[i].rec.phones[1]>>]], data)

show_all(data) == input_error(show_all_body(data))

\* the body of add_birthday
add_birthday_body(args, data) ==
    IF Len(args) # 2 THEN Raise("ValueError", None, data)
    ELSE IF find(data, args[1]) = NoRecord THEN Raise("KeyError", args[1], data)
    ELSE LET b == rec_add_birthday(find(data, args[1]), args[2])
         IN  IF b.exc # "" THEN Raise(b.exc, None, data)
             ELSE Return(Msg("Birthday added."), SetRecord(data, args[1], b.rec))

add_birthday(args, data) == input_error(add_birthday_body(args, data))

\* the body of show_birthday
show_birthday_body(args, data) ==
    IF Len(args) # 1 THEN Raise("IndexError", None, data)
    ELSE IF find(data, args[1]) = NoRecord THEN Raise("KeyError", args[1], data)
    ELSE IF get_birthday(find(data, args[1])) = None
    THEN Return(Msg("Birthday is not set."), data)
    ELSE Return(Fmt("{}", <<find(data, args[1]).birthday>>), data)

show_birthday(args, data) == input_error(show_birthday_body(args, data))

\* lines 543-549 of birthdays: what it prints for the mapping bdays
PrintBirthdays(bdays, data) ==
    IF bdays.exc # "" THEN Raise(bdays.exc, None, data)
    ELSE IF bdays.val = <<>>
    THEN [Return(<<>>, data) EXCEPT
            !.printed = Msg("No birthdays in the next week.")]
    ELSE [Return(<<>>, data) EXCEPT
            !.printed = Msg("Birthdays in the next week:") \o
                [i \in DOMAIN bdays.val |->
                    [fmt |-> "{day}: {names}", day |-> bdays.val[i].day,
                     args |-> bdays.val[i].names]]]

\* the body of birthdays: it prints, and returns None
birthdays_body(data, tdy) == PrintBirthdays(get_birthdays_per_week(data, tdy), data)

\* birthdays with a slip: the decorator @input_error is missing
birthdays_Undecorated(data, tdy) == birthdays_body(data, tdy)

birthdays(data, tdy) == input_error(birthdays_body(data, tdy))

(***************************************************************************)
(* parse_input and main.                                                   *)
(***************************************************************************)
\* the None that parse_input returns as the command of an empty line
NoCommand == <<"None">>

\* parse_input: split() of an empty line makes "cmd, *args = ..." raise
\* ValueError, which returns (None, [])
parse_input(user_input) ==
    LET toks == Split(user_input)
    IN  IF toks = <<>> THEN <<NoCommand, <<>>>>
        ELSE <<Lower(toks[1])>> \o Tail(toks)

CmdAdd          == <<"a", "d", "d">>
CmdChange       == <<"c", "h", "a", "n", "g", "e">>
CmdPhone        == <<"p", "h", "o", "n", "e">>
CmdAll          == <<"a", "l", "l">>
CmdAddBirthday  == <<"a", "d", "d", "-", "b", "i", "r", "t", "h", "d", "a", "y">>
CmdShowBirthday == <<"s", "h", "o", "w", "-", "b", "i", "r", "t", "h", "d", "a", "y">>
CmdBirthdays    == <<"b", "i", "r", "t", "h", "d", "a", "y", "s">>
CmdHello        == <<"h", "e", "l", "l", "o">>
CmdClose        == <<"c", "l", "o", "s", "e">>
CmdExit         == <<"e", "x", "i", "t">>

\* One iteration of main's loop after "command, *args = parse_input(...)",
\* with the clock's date: what the handler leaves, `printed` being everything
\* the iteration prints and exc an exception that no handler caught.
Dispatch(p, data, tdy) ==
    LET command == p[1]
        args    == Tail(p)
        Show(h) == [h EXCEPT !.printed = @ \o h.ret]
    IN  IF command = CmdAdd THEN Show(add_contact(args, data))
        ELSE IF command = CmdChange THEN Show(change_contact(args, data))
        ELSE IF command = CmdPhone THEN Show(show_phone(args, data))
        ELSE IF command = CmdAll THEN Show(show_all(data))
        ELSE IF command = CmdAddBirthday THEN Show(add_birthday(args, data))
        ELSE IF command = CmdShowBirthday THEN Show(show_birthday(args, data))
        ELSE IF command = CmdBirthdays THEN birthdays(data, tdy)
        ELSE IF command = CmdHello THEN Show(Return(Msg("How can I help you?"), data))
        ELSE IF command \in {CmdClose, CmdExit} THEN Show(Return(Msg("Good bye!"), data))
        ELSE Show(Return(Msg("Invalid command."), data))

\* the branch of main that ends in "break"
Stops(p) == p[1] \in {CmdClose, CmdExit}

\* the branch of main whose handler reads the clock (datetime.today())
ReadsClock(p) == p[1] = CmdBirthdays

(***************************************************************************)
(* The inputs the specifications draw from.                                *)
(***************************************************************************)
NameA == <<"A">>
NameB == <<"B">>
Names == {NameA, NameB}

PhoneOne   == <<"1", "2", "3", "4", "5", "6", "7", "8", "9", "0">>
PhoneTwo   == <<"5", "5", "5", "5", "5", "5", "5", "5", "5", "5">>
PhoneShort == <<"1", "2", "3">>
PhoneAlpha == <<"1", "2", "3", "4", "5", "a", "b", "c", "d", "e">>
GoodPhones == {PhoneOne, PhoneTwo}
BadPhones  == {PhoneShort, PhoneAlpha}

BdayLeap    == <<"2", "9", ".", "0", "2", ".", "2", "0", "0", "0">>
BdayShort   == <<"1", ".", "6", ".", "1", "9", "9", "0">>
BdayNoDay   == <<"3", "0", ".", "0", "2", ".", "2", "0", "2", "0">>
BdayNoMonth == <<"1", "5", ".", "1", "3", ".", "1", "9", "9", "0">>
BdayAlpha   == <<"a", "b", ".", "c", "d", ".", "e", "f", "g", "h">>
BdayTexts   == {BdayLeap, BdayShort, BdayNoDay, BdayNoMonth, BdayAlpha}

\* argument lists of the commands that take a name and a second field
PairArgs(seconds) ==
    {<<>>, <<NameA>>, <<NameA, PhoneOne, PhoneTwo>>}
        \cup {<<n, x>> : n \in Names, x \in seconds}

\* argument lists of the commands that take a name
NameArgs == {<<>>, <<NameA>>, <<NameB>>, <<NameA, NameB>>}

\* the lines typed: every command with right and wrong argument lists, and
\* lines that differ in case, in blanks, or name no command
Lines ==
    {Join(<<CmdAdd>> \o a) : a \in PairArgs(GoodPhones \cup BadPhones)}
    \cup {Join(<<CmdChange>> \o a) : a \in PairArgs(GoodPhones \cup BadPhones)}
    \cup {Join(<<CmdAddBirthday>> \o a) : a \in PairArgs(BdayTexts)}
    \cup {Join(<<CmdPhone>> \o a) : a \in NameArgs}
    \cup {Join(<<CmdShowBirthday>> \o a) : a \in NameArgs}
    \cup {CmdAll, CmdBirthdays, CmdHello, CmdClose, CmdExit}
    \cup {<<>>, <<" ", " ">>, <<"f", "o", "o">>,
          <<"C", "L", "O", "S", "E">>, <<"E", "x", "i", "t", " ", "A">>,
          <<"c", "l", "o", "s", "e", "d">>,
          <<" ", "A", "L", "L", " ">>,
          <<" ">> \o CmdAdd \o <<" ", " ">> \o NameB \o <<" ">> \o PhoneTwo \o <<" ">>}

\* parse_input of every line, computed once
Parsed == [l \in Lines |-> parse_input(l)]

\* the dates the clock shows when `birthdays` is typed
Todays == {Date(2023, 5, 29), Date(2024, 2, 26)}

NoLine   == <<"<no line>">>
NoDate   == Date(0, 0, 0)
NoResult == [exc |-> "", val |-> <<>>]
NoCall   == [op |-> "", args |-> <<>>, exc |-> ""]

RECURSIVE TotalPhones(_)
TotalPhones(data) ==
    IF data = <<>> THEN 0 ELSE Len(data[1].rec.phones) + TotalPhones(Tail(data))

(***************************************************************************)
(* Spec: the command loop of main().  status is the loop's position:       *)
(* "input" (blocked in input()), "printed" (an iteration's body has run),  *)
(* "done" (after break) or "crashed" (an exception left main).  prev, line,*)
(* out, today and result describe the iteration that has just run: the    *)
(* directory before it, the line read, the lines printed, the clock's date *)
(* and the birthday query's outcome.                                       *)
(***************************************************************************)
Init ==
    /\ book = <<>>
    /\ prev = <<>>
    /\ line = NoLine
    /\ out = Msg("Welcome to the assistant bot!")
    /\ status = "input"
    /\ today = NoDate
    /\ result = NoResult
    /\ call = NoCall

\* the body of "while True" on the line l, the clock showing t
ReadLine(l, t) ==
    /\ status = "input"
    /\ \E h \in {Dispatch(Parsed[l], book, t)} :
           /\ TotalPhones(h.book) <= MaxTotalPhones
           /\ book' = h.book
           /\ out' = h.printed
           /\ status' = IF h.exc # "" THEN "crashed"
                        ELSE IF Stops(Parsed[l]) THEN "done" ELSE "printed"
    /\ prev' = book
    /\ line' = l
    /\ today' = t
    /\ result' = IF ReadsClock(Parsed[l])
                 THEN get_birthdays_per_week(book, t) ELSE NoResult
    /\ UNCHANGED call

\* a line whose command does not read the clock
Command == \E l \in Lines : ~ReadsClock(Parsed[l]) /\ ReadLine(l, NoDate)

\* the `birthdays` command, which reads today's date
ClockCommand == \E l \in Lines, t \in Todays : ReadsClock(Parsed[l]) /\ ReadLine(l, t)

\* the loop comes back to input("Enter a command: ")
Prompt ==
    /\ status = "printed"
    /\ status' = "input"
    /\ prev' = book
    /\ line' = NoLine
    /\ out' = <<>>
    /\ today' = NoDate
    /\ result' = NoResult
    /\ UNCHANGED <<book, call>>

Next == Command \/ ClockCommand \/ Prompt

Spec == Init /\ [][Next]_vars

(***************************************************************************)
(* SpecBD: the `birthdays` command on directories whose birthdays lie      *)
(* around the ends of February and December, the clock showing every day   *)
(* of three weeks there.                                                   *)
(***************************************************************************)
TwoDigits(n) == <<DigitChars[(n \div 10) + 1], DigitChars[(n % 10) + 1]>>

\* the text DD.MM.YYYY a user types for a date
FormatDate(d, m, y) ==
    TwoDigits(d) \o <<".">> \o TwoDigits(m) \o <<".">>
        \o TwoDigits(y \div 100) \o TwoDigits(y % 100)

\* <<day, month>> of the birthdays drawn
BDDays == {<<25, 12>>, <<30, 12>>, <<31, 12>>, <<1, 1>>, <<6, 1>>, <<7, 1>>,
           <<28, 2>>, <<29, 2>>, <<2, 3>>, <<3, 3>>, <<4, 3>>}

BDBirthdays == {None} \cup {FormatDate(dm[1], dm[2], 2000) : dm \in BDDays}

BDTodays ==
    {Date(2023, 12, d) : d \in 25..31}
        \cup {Date(2024, 2, d) : d \in 26..29} \cup {Date(2024, 3, d) : d \in 1..3}
        \cup {Date(2023, 2, 27), Date(2023, 2, 28), Date(2023, 3, 1)}

\* a contact as "add <name> <phone>" and "add-birthday <name> <text>" leave it
BDEntry(k, b) ==
    [key |-> <<UpperChars[k]>>,
     rec |-> [name |-> <<UpperChars[k]>>, phones |-> <<PhoneOne>>, birthday |-> b]]

\* directories of 1..MaxContacts contacts, added in alphabetical or reverse order
BDBooks ==
    UNION {{[i \in 1..n |-> BDEntry(IF rev THEN n + 1 - i ELSE i, b[i])] :
                b \in [1..n -> BDBirthdays], rev \in BOOLEAN} : n \in 1..MaxContacts}

InitBD ==
    /\ book \in BDBooks
    /\ prev = book
    /\ line = NoLine
    /\ out = <<>>
    /\ status = "input"
    /\ today = NoDate
    /\ result = NoResult
    /\ call = NoCall

BirthdaysCommand == \E t \in BDTodays : ReadLine(CmdBirthdays, t)

NextBD == BirthdaysCommand \/ Prompt

SpecBD == InitBD /\ [][NextBD]_vars

(***************************************************************************)
(* SpecRecord: the methods of Record and AddressBook called directly on a  *)
(* directory, with arbitrary texts.  call is the last call: its method,    *)
(* its arguments and the exception it raised.                              *)
(***************************************************************************)
ApiTexts == GoodPhones \cup {PhoneShort, None}

InitRecord ==
    /\ book = <<>>
    /\ prev = <<>>
    /\ line = NoLine
    /\ out = <<>>
    /\ status = "input"
    /\ today = NoDate
    /\ result = NoResult
    /\ call = NoCall

ApiFrame == UNCHANGED <<prev, line, out, status, today, result>>

\* book.add_record(Record(name))
ApiAddRecord ==
    \E n \in Names \cup {None} :
        LET r == Record(n)
        IN  /\ book' = IF r.exc = "" THEN add_record(book, r.rec) ELSE book
            /\ call' = [op |-> "add_record", args |-> <<n>>, exc |-> r.exc]
            /\ ApiFrame

\* book.delete(name)
ApiDelete ==
    \E n \in Names :
        /\ book' = delete(book, n)
        /\ call' = [op |-> "delete", args |-> <<n>>, exc |-> ""]
        /\ ApiFrame

\* book.find(name).add_phone(phone)
ApiAddPhone ==
    \E n \in Names, p \in ApiTexts :
        /\ find(book, n) # NoRecord
        /\ TotalPhones(book) < MaxApiPhones
        /\ LET r == add_phone(find(book, n), p)
           IN  /\ book' = SetRecord(book, n, r.rec)
               /\ call' = [op |-> "add_phone", args |-> <<n, p>>, exc |-> r.exc]
        /\ ApiFrame

\* book.find(name).edit_phone(old_phone, new_phone)
ApiEditPhone ==
    \E n \in Names, old \in ApiTexts, new \in ApiTexts :
        /\ find(book, n) # NoRecord
        /\ book' = SetRecord(book, n, edit_phone(find(book, n), old, new))
        /\ call' = [op |-> "edit_phone", args |-> <<n, old, new>>, exc |-> ""]
        /\ ApiFrame

\* book.find(name).remove_phone(phone)
ApiRemovePhone ==
    \E n \in Names, p \in ApiTexts :
        /\ find(book, n) # NoRecord
        /\ book' = SetRecord(book, n, remove_phone(find(book, n), p))
        /\ call' = [op |-> "remove_phone", args |-> <<n, p>>, exc |-> ""]
        /\ ApiFrame

NextRecord ==
    ApiAddRecord \/ ApiDelete \/ ApiAddPhone \/ ApiEditPhone \/ ApiRemovePhone

SpecRecord == InitRecord /\ [][NextRecord]_vars

(***************************************************************************)
(* What the properties below read off a state: the line that was typed,    *)
(* split into its command and arguments by position, and the texts and     *)
(* dates the specification calls well-formed.                              *)
(***************************************************************************)
\* the k-th smallest member of a set of numbers
Kth(S, k) == CHOOSE x \in S : Cardinality({y \in S : y < x}) = k - 1

\* the maximal blank-free runs of a line, in order
TokensOf(l) ==
    LET starts == {i \in DOMAIN l : l[i] # " " /\ (i = 1 \/ l[i - 1] = " ")}
        ends   == {i \in DOMAIN l : l[i] # " " /\ (i = Len(l) \/ l[i + 1] = " ")}
    IN  [k \in 1..Cardinality(starts) |-> SubSeq(l, Kth(starts, k), Kth(ends, k))]

\* an iteration of the loop has just run on `line`
Ran == status \in {"printed", "done", "crashed"}

TypedCommand == IF TokensOf(line) = <<>> THEN <<>> ELSE Lower(TokensOf(line)[1])

TypedArgs == IF TokensOf(line) = <<>> THEN <<>> ELSE Tail(TokensOf(line))

Keys(data) == {data[i].key : i \in DOMAIN data}

RecordOf(data, name) == data[CHOOSE i \in DOMAIN data : data[i].key = name].rec

\* a text of exactly 10 decimal digits
TenDigits(t) ==
    /\ Len(t) = 10
    /\ \A i \in 1..10 : t[i] \in {"0", "1", "2", "3", "4", "5", "6", "7", "8", "9"}

\* the number two digit characters write
TwoDigitNumber(a, b) == 10 * DigitVal(a) + DigitVal(b)

\* a text DD.MM.YYYY that names a real calendar date
RealDDMMYYYY(t) ==
    /\ Len(t) = 10
    /\ t[3] = "." /\ t[6] = "."
    /\ \A i \in {1, 2, 4, 5, 7, 8, 9, 10} : IsDigitChar(t[i])
    /\ LET d == TwoDigitNumber(t[1], t[2])
           m == TwoDigitNumber(t[4], t[5])
           y == 100 * TwoDigitNumber(t[7], t[8]) + TwoDigitNumber(t[9], t[10])
       IN  y >= 1 /\ m \in 1..12 /\ d >= 1 /\ d <= DaysInMonth(y, m)

OneLine(s) == <<[fmt |-> s, day |-> "", args |-> <<>>]>>

(***************************************************************************)
(* C1                                                                      *)
(***************************************************************************)
AddTyped ==
    /\ Ran
    /\ TypedCommand = CmdAdd
    /\ Len(TypedArgs) = 2
    /\ TypedArgs[1] # <<>>
    /\ TenDigits(TypedArgs[2])

\* C1 as stated: `add` with a valid name and phone answers "Contact added.";
\* a record already held under the name keeps its phones, in order, and its
\* birthday, and gains the new phone; otherwise a record with exactly that
\* phone is created.
C1_AddAugments ==
    AddTyped =>
        /\ out = OneLine("Contact added.")
        /\ TypedArgs[1] \in Keys(book)
        /\ IF TypedArgs[1] \in Keys(prev)
           THEN /\ RecordOf(book, TypedArgs[1]).phones =
                        Append(RecordOf(prev, TypedArgs[1]).phones, TypedArgs[2])
                /\ RecordOf(book, TypedArgs[1]).birthday =
                        RecordOf(prev, TypedArgs[1]).birthday
           ELSE RecordOf(book, TypedArgs[1]).phones = <<TypedArgs[2]>>

\* C1 amended: `add` with a valid name and phone answers "Contact added." and
\* leaves under that name a record holding exactly that phone and no
\* birthday: a record already held under the name is replaced, in its place,
\* and its phones and birthday are gone; a new name is appended; every other
\* entry is unchanged.
C1_AddReplaces ==
    AddTyped =>
        LET entry == [key |-> TypedArgs[1],
                      rec |-> [name |-> TypedArgs[1], phones |-> <<TypedArgs[2]>>,
                               birthday |-> <<>>]]
        IN  /\ out = OneLine("Contact added.")
            /\ IF TypedArgs[1] \in Keys(prev)
               THEN book = [i \in DOMAIN prev |->
                              IF prev[i].key = TypedArgs[1] THEN entry ELSE prev[i]]
               ELSE book = Append(prev, entry)

\* `add` has replaced the first of two records, which had a birthday
C1_Witness ==
    /\ AddTyped
    /\ Len(prev) = 2
    /\ prev[1].key = TypedArgs[1]
    /\ prev[1].rec.birthday # <<>>
    /\ prev[1].rec.phones # <<TypedArgs[2]>>

(***************************************************************************)
(* C3                                                                      *)
(***************************************************************************)
WrongCountTyped ==
    /\ Ran
    /\ \/ TypedCommand \in {CmdAdd, CmdChange, CmdAddBirthday} /\ Len(TypedArgs) # 2
       \/ TypedCommand \in {CmdPhone, CmdShowBirthday} /\ Len(TypedArgs) # 1

\* C3 as stated: add, change, add-birthday with other than two arguments and
\* phone, show-birthday with other than one answer "Invalid command format."
\* and leave the directory unchanged.
C3_WrongCountIsFormatError ==
    WrongCountTyped => out = OneLine("Invalid command format.") /\ book = prev

\* C3 amended: phone and show-birthday with other than one argument answer
\* "Invalid command format."; add, change and add-birthday with other than
\* two arguments answer "Give me name and phone please."; in every such case
\* the directory is unchanged.
C3_WrongCountAnswers ==
    WrongCountTyped =>
        /\ book = prev
        /\ status = "printed"
        /\ out = IF TypedCommand \in {CmdPhone, CmdShowBirthday}
                 THEN OneLine("Invalid command format.")
                 ELSE OneLine("Give me name and phone please.")

\* a one-argument command was typed with two arguments on a directory of two
C3_Witness ==
    /\ WrongCountTyped
    /\ TypedCommand = CmdShowBirthday
    /\ Len(TypedArgs) = 2
    /\ Len(prev) = 2

(***************************************************************************)
(* C2                                                                      *)
(***************************************************************************)
\* C2: after any sequence of add_phone, edit_phone and remove_phone calls,
\* failed ones included, every phone a record holds is a text of exactly 10
\* decimal digits.
C2_PhonesStayValid ==
    \A i \in DOMAIN book :
        \A k \in DOMAIN book[i].rec.phones : TenDigits(book[i].rec.phones[k])

(***************************************************************************)
(* C4                                                                      *)
(***************************************************************************)
\* C4: whatever the directory and the date, `birthdays` prints either the
\* grouped map, under its heading, or "No birthdays in the next week.".
C4_BirthdaysPrints ==
    Ran /\ TypedCommand = CmdBirthdays =>
        \/ out = OneLine("No birthdays in the next week.")
        \/ /\ Len(out) >= 2
           /\ out[1] = OneLine("Birthdays in the next week:")[1]
           /\ \A i \in 2..Len(out) : out[i].fmt = "{day}: {names}"

(***************************************************************************)
(* The calendar as the properties count it: days since 1970-01-01, by the  *)
(* civil-calendar formula, and the weekday from that count.                *)
(***************************************************************************)
CivilDays(y, m, d) ==
    LET yy  == IF m <= 2 THEN y - 1 ELSE y
        era == yy \div 400
        yoe == yy - era * 400
        mp  == IF m > 2 THEN m - 3 ELSE m + 9
        doy == (153 * mp + 2) \div 5 + d - 1
        doe == yoe * 365 + yoe \div 4 - yoe \div 100 + doy
    IN  era * 146097 + doe - 719468

\* 0 is Monday, 5 Saturday, 6 Sunday
DayIndex(n) == (n + 3) % 7

DaysOf(dt) == CivilDays(dt.year, dt.month, dt.day)

\* the next occurrence of the birthday written DD.MM.YYYY, seen from tdy
NextOccurrence(b, tdy) ==
    LET d == TwoDigitNumber(b[1], b[2])
        m == TwoDigitNumber(b[4], b[5])
    IN  IF CivilDays(tdy.year, m, d) < DaysOf(tdy)
        THEN CivilDays(tdy.year + 1, m, d)
        ELSE CivilDays(tdy.year, m, d)

\* a Saturday or Sunday moved to the Monday after it
ToMonday(n) == IF DayIndex(n) = 5 THEN n + 2 ELSE IF DayIndex(n) = 6 THEN n + 1 ELSE n

WindowDays(b, tdy) == ToMonday(NextOccurrence(b, tdy)) - DaysOf(tdy)

WindowDayName(b, tdy) == DayNames[DayIndex(DaysOf(tdy) + WindowDays(b, tdy)) + 1]

BirthdaysAnswered == Ran /\ TypedCommand = CmdBirthdays

\* the places where a name stands in the query's result
Places(name) ==
    UNION {{<<j, k>> : k \in {n \in DOMAIN result.val[j].names :
                                 result.val[j].names[n] = name}} :
              j \in DOMAIN result.val}

(***************************************************************************)
(* C5                                                                      *)
(***************************************************************************)
\* C5: a contact whose next birthday occurrence is a Saturday or Sunday
\* within the next seven days of today is reported, under "Monday".
C5_WeekendUnderMonday ==
    BirthdaysAnswered =>
        \A i \in DOMAIN prev :
            (/\ prev[i].rec.birthday # <<>>
             /\ DayIndex(NextOccurrence(prev[i].rec.birthday, today)) \in {5, 6}
             /\ NextOccurrence(prev[i].rec.birthday, today) - DaysOf(today) \in 0..6)
            => /\ result.exc = ""
               /\ \E j \in DOMAIN result.val :
                    /\ result.val[j].day = "Monday"
                    /\ prev[i].key \in Range(result.val[j].names)

(***************************************************************************)
(* C6                                                                      *)
(***************************************************************************)
InWindow(e, tdy) ==
    e.rec.birthday # <<>> /\ WindowDays(e.rec.birthday, tdy) \in 0..6

\* the names the window puts under a weekday, in the directory's order
NamesDue(data, tdy, day) ==
    LET kept == SelectSeq(data, LAMBDA e :
                    InWindow(e, tdy) /\ WindowDayName(e.rec.birthday, tdy) = day)
    IN  [i \in DOMAIN kept |-> kept[i].key]

\* C6: where the query returns, a contact with a birthday is in the result
\* iff the days from today to its weekend-shifted next occurrence are 0..6;
\* it is there once, under the weekday of that day, and the names under a
\* weekday keep the directory's order; a contact without birthday, or 7 or
\* more days away, is not there.
C6_WindowIsZeroToSix ==
    BirthdaysAnswered /\ result.exc = "" =>
        /\ \A i \in DOMAIN prev :
              Cardinality(Places(prev[i].key)) = IF InWindow(prev[i], today) THEN 1 ELSE 0
        /\ \A j \in DOMAIN result.val :
              /\ result.val[j].names # <<>>
              /\ result.val[j].names = NamesDue(prev, today, result.val[j].day)
        /\ \A j, k \in DOMAIN result.val :
              result.val[j].day = result.val[k].day => j = k

\* the query has put two contacts under one weekday, the later-added first
\* in the alphabet, and the clock is not at a Monday
C6_Witness ==
    /\ BirthdaysAnswered
    /\ result.exc = ""
    /\ Len(prev) = 2
    /\ \E j \in DOMAIN result.val : result.val[j].names = <<NameB, NameA>>
    /\ prev[1].rec.birthday # prev[2].rec.birthday

(***************************************************************************)
(* C7                                                                      *)
(***************************************************************************)
\* C7: no line makes the loop end through an uncaught failure; after a line
\* whose first token is not close or exit, in any case, the loop goes on to
\* the next line, and it ends, having printed "Good bye!", exactly when
\* such a line is read.
C7_LoopSurvives ==
    Ran =>
        /\ status # "crashed"
        /\ status = "done" <=> TypedCommand \in {CmdClose, CmdExit}
        /\ status = "done" => out = OneLine("Good bye!") /\ book = prev

\* the loop goes on after a `birthdays` whose query raised ValueError
C7_Witness ==
    /\ status = "printed"
    /\ TypedCommand = CmdBirthdays
    /\ result.exc = "ValueError"

(***************************************************************************)
(* C8                                                                      *)
(***************************************************************************)
\* C8: add, change or add-birthday with two arguments, for change and
\* add-birthday an existing name, and a malformed field (an empty name, a
\* phone that is not 10 digits, a birthday that is not a real DD.MM.YYYY
\* date) answers "Give me name and phone please." and leaves the directory
\* unchanged.
C8_MalformedRejected ==
    (/\ Ran
     /\ Len(TypedArgs) = 2
     /\ \/ /\ TypedCommand = CmdAdd
           /\ TypedArgs[1] = <<>> \/ ~TenDigits(TypedArgs[2])
        \/ /\ TypedCommand = CmdChange
           /\ TypedArgs[1] \in Keys(prev)
           /\ ~TenDigits(TypedArgs[2])
        \/ /\ TypedCommand = CmdAddBirthday
           /\ TypedArgs[1] \in Keys(prev)
           /\ ~RealDDMMYYYY(TypedArgs[2]))
    => out = OneLine("Give me name and phone please.") /\ book = prev

(***************************************************************************)
(* C9                                                                      *)
(***************************************************************************)
ChangeTyped ==
    /\ Ran
    /\ TypedCommand = CmdChange
    /\ Len(TypedArgs) = 2
    /\ TypedArgs[1] \in Keys(prev)
    /\ TenDigits(TypedArgs[2])

C10_EveryRecordHasPhone ==
    /\ \A i \in DOMAIN book :
          /\ book[i].rec.phones # <<>>
          /\ book[i].key = book[i].rec.name
    /\ (Ran /\ TypedCommand = CmdPhone /\ Len(TypedArgs) = 1
            /\ TypedArgs[1] \in Keys(prev)) =>
          /\ out = <<[fmt |-> "{}", day |-> "",
                      args |-> <<RecordOf(prev, TypedArgs[1]).phones[1]>>]>>
          /\ TenDigits(out[1].args[1])
    /\ (Ran /\ TypedCommand = CmdAll /\ prev # <<>>) =>
          out = [i \in DOMAIN prev |->
                   [fmt |-> "{}: {}", day |-> "",
                    args |-> <<prev[i].key, prev[i].rec.phones[1]>>]]

\* `all` has listed a directory of two records, one of them with two phones
C10_Witness ==
    /\ Ran
    /\ TypedCommand = CmdAll
    /\ Len(prev) = 2
    /\ \E i \in DOMAIN prev : Len(prev[i].rec.phones) = 2

=============================================================================
